---- MODULE Spec2Model ----
(***************************************************************************)
(* A state-machine model of main() in hwaelMain.cpp: the foot / Toonie     *)
(* measurement pipeline.  One action per statement group of main, in the   *)
(* order of the source.  The image-processing library is modelled by what  *)
(* main relies on: rasters are the history of operations applied to them,  *)
(* findContours / approxPolyDP deliver polygons (given by their extreme    *)
(* coordinates), HoughCircles delivers the candidate circles that pass its *)
(* radius window and centre separation, floats are IEEE-754 binary32.      *)
(***************************************************************************)
EXTENDS Integers, Naturals, Sequences, FiniteSets

(***************************************************************************)
(* Bounds of the model.                                                    *)
(***************************************************************************)
\* longest contour list explored
MaxContours == 2
\* largest polygon coordinate explored
MaxCoord == 1
\* longest candidate-circle list explored
MaxCircles == 2
\* sub-pixel resolution: a Vec3f component v is held as v * RadiusUnit
RadiusUnit == 4

(***************************************************************************)
(* Program constants.                                                      *)
(***************************************************************************)
\* HoughCircles(gray, circles, HOUGH_GRADIENT, 1.5, 50, 150, 40, 0, 30)
HoughMinDist == 50
HoughMinRadius == 0
HoughMaxRadius == 30
\* waitKey(6000); waitKey(4000); waitKey(4000); waitKey(0)
Delay1 == 6000
Delay2 == 4000
Delay3 == 4000
\* variant of line 121 with a finite delay
Delay0Finite == Delay3
Delay0 == 0

(***************************************************************************)
(* IEEE-754 binary32, non-negative values: a finite value is m * 2^(-e)    *)
(* with m = 0 or 2^23 <= m < 2^24.                                         *)
(***************************************************************************)
FZero == [cls |-> "fin", m |-> 0, e |-> 0]
FInf == [cls |-> "inf", m |-> 0, e |-> 0]
FNaN == [cls |-> "nan", m |-> 0, e |-> 0]

IsZero(a) == a.cls = "fin" /\ a.m = 0

\* round q * 2^(-e) with remainder r out of 2*half (and a sticky bit below)
\* to nearest, ties to even
RoundEven(q, r, half, sticky, e) ==
    LET up == \/ r > half
              \/ r = half /\ sticky
              \/ r = half /\ ~sticky /\ q % 2 = 1
        q1 == IF up THEN q + 1 ELSE q
    IN  IF q1 = 2^24 THEN [cls |-> "fin", m |-> 2^23, e |-> e - 1]
        ELSE [cls |-> "fin", m |-> q1, e |-> e]

RECURSIVE ShiftUp(_, _)
\* exact normalisation of a small positive integer mantissa
ShiftUp(m, e) == IF m >= 2^23 THEN [cls |-> "fin", m |-> m, e |-> e]
                 ELSE ShiftUp(2 * m, e + 1)

\* conversion int -> float (exact for 0 <= n < 2^24)
IntToFloat(n) == IF n = 0 THEN FZero ELSE ShiftUp(n, 0)

RECURSIVE DivBits(_, _, _, _)
\* n further quotient bits of rem / d by restoring division
DivBits(rem, d, q, n) ==
    IF n = 0 THEN <<q, rem>>
    ELSE IF 2 * rem >= d THEN DivBits(2 * rem - d, d, 2 * q + 1, n - 1)
         ELSE DivBits(2 * rem, d, 2 * q, n - 1)

\* float / float
FDiv(a, b) ==
    IF a.cls = "nan" \/ b.cls = "nan" THEN FNaN
    ELSE IF a.cls = "inf" THEN (IF b.cls = "inf" THEN FNaN ELSE FInf)
    ELSE IF b.cls = "inf" THEN FZero
    ELSE IF IsZero(b) THEN (IF IsZero(a) THEN FNaN ELSE FInf)
    ELSE IF IsZero(a) THEN FZero
    ELSE LET qr == DivBits(a.m % b.m, b.m, a.m \div b.m, 25)
             q  == qr[1]
             st == qr[2] # 0
         IN  IF q >= 2^25
             THEN RoundEven(q \div 4, q % 4, 2, st, a.e - b.e + 23)
             ELSE RoundEven(q \div 2, q % 2, 1, st, a.e - b.e + 24)

\* float * float, the 48-bit product formed from 12-bit halves
FMul(a, b) ==
    IF a.cls = "nan" \/ b.cls = "nan" THEN FNaN
    ELSE IF a.cls = "inf" \/ b.cls = "inf"
         THEN (IF IsZero(a) \/ IsZero(b) THEN FNaN ELSE FInf)
    ELSE IF IsZero(a) \/ IsZero(b) THEN FZero
    ELSE LET a1 == a.m \div 4096
             a0 == a.m % 4096
             b1 == b.m \div 4096
             b0 == b.m % 4096
             mid == a1 * b0 + a0 * b1
             lof == a0 * b0 + (mid % 4096) * 4096
             lo == lof % 2^24
             hi == a1 * b1 + mid \div 4096 + lof \div 2^24
         IN  IF hi >= 2^23
             THEN RoundEven(hi, lo, 2^23, FALSE, a.e + b.e - 24)
             ELSE RoundEven(2 * hi + lo \div 2^23, lo % 2^23, 2^22, FALSE,
                            a.e + b.e - 23)

\* const float Toonie_RADIUS = 1.325;  the decimal literal rounded to float
Toonie_RADIUS == FDiv(IntToFloat(1325), IntToFloat(1000))

(***************************************************************************)
(* Library operations main relies on.                                      *)
(***************************************************************************)
\* variant of Rect() starting from a one-pixel rectangle
RectUnit == [x |-> 0, y |-> 0, width |-> 1, height |-> 1]

\* Rect(): the default-constructed rectangle
RectDefault == [x |-> 0, y |-> 0, width |-> 0, height |-> 0]

\* boundingRect of a non-empty integer point set with the given extremes
BoundingRect(p) ==
    [x |-> p.xmin, y |-> p.ymin,
     width |-> p.xmax - p.xmin + 1, height |-> p.ymax - p.ymin + 1]

\* cvRound on a fixed-point value: nearest integer, ties to even
CvRound(v) ==
    LET q == v \div RadiusUnit
        r == v % RadiusUnit
    IN  IF 2 * r < RadiusUnit THEN q
        ELSE IF 2 * r > RadiusUnit THEN q + 1
        ELSE IF q % 2 = 0 THEN q ELSE q + 1

\* Vec3i c = circles[i]: each float component through saturate_cast<int>
Vec3i(c) == <<CvRound(c[1]), CvRound(c[2]), CvRound(c[3])>>

\* the radius window of the HoughCircles call (minRadius, maxRadius)
RadiusAccepted(r) ==
    /\ r >= HoughMinRadius * RadiusUnit
    /\ r <= HoughMaxRadius * RadiusUnit

\* the centre separation of the HoughCircles call (minDist)
FarEnough(c, d) ==
    (c[1] - d[1]) * (c[1] - d[1]) + (c[2] - d[2]) * (c[2] - d[2])
        >= (HoughMinDist * RadiusUnit) * (HoughMinDist * RadiusUnit)

RECURSIVE HoughAccept(_, _)
\* candidates in accumulator order; acc: the circles accepted so far
HoughAccept(cands, acc) ==
    IF cands = <<>> THEN acc
    ELSE LET c == Head(cands)
             ok == /\ RadiusAccepted(c[3])
                   /\ \A k \in 1..Len(acc) : FarEnough(c, acc[k])
         IN  HoughAccept(Tail(cands), IF ok THEN Append(acc, c) ELSE acc)

HoughCircles(cands) == HoughAccept(cands, <<>>)

(***************************************************************************)
(* The decisions and arithmetic of main.                                   *)
(***************************************************************************)
\* int product; the sides are at most the raster's, so it does not overflow
Area(r) == r.width * r.height

\* variant of line 69 comparing with >= : the last of equal areas wins
LargerAreaOrEqual(r, cur) == Area(r) >= Area(cur)

\* line 69: (boundRect[i].width * boundRect[i].height) > (footRect.width * footRect.height)
LargerArea(r, cur) == Area(r) > Area(cur)

\* variant of line 88 without the comparison: the last circle wins
LastRadiusWins(radius, cur) == TRUE

\* line 88: radius > TooniePixelRadius
LargerRadius(radius, cur) == radius > cur

\* variant of line 93 guarding the zero radius
ScaleGuarded(R) == IF R = 0 THEN FZero ELSE FDiv(Toonie_RADIUS, IntToFloat(R))

\* variant of line 93 with the operands exchanged
ScaleInverted(R) == FDiv(IntToFloat(R), Toonie_RADIUS)

\* line 93: Toonie_RADIUS / TooniePixelRadius
ScaleOf(R) == FDiv(Toonie_RADIUS, IntToFloat(R))

\* variant of lines 115-118 with height and width exchanged
ReportSwapped(R, ppm, rect) ==
    [radiusPx |-> R,
     radiusCm |-> Toonie_RADIUS,
     scale    |-> ppm,
     lengthPx |-> rect.width,
     lengthCm |-> FMul(IntToFloat(rect.width), ppm),
     widthPx  |-> rect.height,
     widthCm  |-> FMul(IntToFloat(rect.height), ppm)]

\* lines 110-118: the values inserted into std::cout, in print order
ReportOf(R, ppm, rect) ==
    [radiusPx |-> R,
     radiusCm |-> Toonie_RADIUS,
     scale    |-> ppm,
     lengthPx |-> rect.height,
     lengthCm |-> FMul(IntToFloat(rect.height), ppm),
     widthPx  |-> rect.width,
     widthCm  |-> FMul(IntToFloat(rect.width), ppm)]

(***************************************************************************)
(* State.                                                                  *)
(***************************************************************************)
VARIABLES
    pc,                 \* position in main
    image,              \* the file's content: empty?, its polygons, its circle candidates
    bottomTestImage,    \* raster: operations applied so far
    hsv,                \* raster
    cannyHSV,           \* raster
    gray,               \* raster
    contours,           \* contours found: extreme coordinates of approxPolyDP(contours[i])
    boundRect,          \* vector<Rect> boundRect(contours.size())
    footRect,           \* Rect footRect
    i,                  \* loop index (1-based)
    circles,            \* vector<Vec3f> circles
    TooniePixelRadius,  \* int
    pixels_per_metric,  \* float, uninitialised until line 93
    out,                \* console report: <<>> or <<the values printed>>
    shown,              \* rasters handed to imshow, in order
    held,               \* ms the last waitKey call blocked
    keyPending,         \* the user pressed a key that waitKey has not returned yet
    steps               \* operations executed, in order

vars == <<pc, image, bottomTestImage, hsv, cannyHSV, gray, contours, boundRect,
          footRect, i, circles, TooniePixelRadius, pixels_per_metric, out,
          shown, held, keyPending, steps>>

FUninit == [cls |-> "uninit", m |-> 0, e |-> 0]

RECURSIVE SeqsUpTo(_, _)
SeqsUpTo(S, n) ==
    IF n = 0 THEN {<<>>}
    ELSE LET shorter == SeqsUpTo(S, n - 1)
         IN  shorter \cup {Append(s, x) : s \in {t \in shorter : Len(t) = n - 1}, x \in S}

\* polygons by their extreme coordinates
Polys ==
    {p \in [xmin : 0..MaxCoord, xmax : 0..MaxCoord, ymin : {0}, ymax : 0..MaxCoord] :
        p.xmin <= p.xmax}

\* two centres further apart than minDist
Centres == {<<0, 0>>, <<(HoughMinDist + 10) * RadiusUnit, 0>>}

\* radii around the rounding cases and around the maxRadius edge
RadiiSample ==
    {1, RadiusUnit \div 2, RadiusUnit + RadiusUnit \div 2, 2 * RadiusUnit - 1,
     2 * RadiusUnit + RadiusUnit \div 2,
     HoughMaxRadius * RadiusUnit - 1, HoughMaxRadius * RadiusUnit + 1}

CandidatesSample == {<<c[1], c[2], r>> : c \in Centres, r \in RadiiSample}

\* one radius for every integer pixel radius the window admits
RadiiAll ==
    {k * RadiusUnit + 1 : k \in 0..(HoughMaxRadius - 1)}
        \cup {HoughMaxRadius * RadiusUnit - 1}

InitWith(polySeqs, candSeqs) ==
    /\ image \in [empty : BOOLEAN, polys : polySeqs, candidates : candSeqs]
    /\ pc = "imread"
    /\ bottomTestImage = <<>>
    /\ hsv = <<>>
    /\ cannyHSV = <<>>
    /\ gray = <<>>
    /\ contours = <<>>
    /\ boundRect = <<>>
    /\ footRect = RectDefault
    /\ i = 1
    /\ circles = <<>>
    /\ TooniePixelRadius = 0
    /\ pixels_per_metric = FUninit
    /\ out = <<>>
    /\ shown = <<>>
    /\ held = 0
    /\ keyPending = FALSE
    /\ steps = <<>>

OneCircle == <<0, 0, 3 * RadiusUnit + 1>>
OnePoly == [xmin |-> 0, xmax |-> 1, ymin |-> 0, ymax |-> 0]

\* every contour list, with no circle or one
Init == InitWith(SeqsUpTo(Polys, MaxContours), {<<>>, <<OneCircle>>})

\* every candidate-circle list, with no contour or one
InitCoin == InitWith({<<>>, <<OnePoly>>}, SeqsUpTo(CandidatesSample, MaxCircles))

\* no contour or one, no circle or one
InitFair == InitWith(SeqsUpTo(Polys, 1), {<<>>, <<OneCircle>>})

\* every pixel radius against every rectangle
InitScale ==
    InitWith(SeqsUpTo(Polys, 1), {<<>>} \cup {<<<<0, 0, r>>>> : r \in RadiiAll})

(***************************************************************************)
(* The actions: main, statement group by statement group.                  *)
(***************************************************************************)
\* line 41: Mat bottomTestImage = imread(...)
Imread ==
    /\ pc = "imread"
    /\ bottomTestImage' = <<"41:imread">>
    /\ steps' = Append(steps, "41:imread")
    /\ pc' = "skinmask"
    /\ UNCHANGED <<image, hsv, cannyHSV, gray, contours, boundRect, footRect, i,
                   circles, TooniePixelRadius, pixels_per_metric, out, shown,
                   held, keyPending>>

\* lines 44-47 on an empty raster: the library raises cv::Exception
\* (cvtColor asserts a 3- or 4-channel source); main catches nothing
SkinMaskThrow ==
    /\ pc = "skinmask"
    /\ image.empty
    /\ pc' = "aborted"
    /\ UNCHANGED <<image, bottomTestImage, hsv, cannyHSV, gray, contours,
                   boundRect, footRect, i, circles, TooniePixelRadius,
                   pixels_per_metric, out, shown, held, keyPending, steps>>

\* variant of line 44 blurring into a separate raster
BlurredCopy(img) == img

\* the raster the skin-mask blur of line 44 writes: bottomTestImage itself
BlurredInPlace(img) == Append(img, "44:GaussianBlur")

\* lines 44-47: blur (in place), HSV conversion, saturation channel, threshold
SkinMask ==
    /\ pc = "skinmask"
    /\ ~image.empty
    /\ bottomTestImage' = BlurredInPlace(bottomTestImage)
    /\ hsv' = bottomTestImage' \o <<"45:cvtColor", "46:split", "47:threshold">>
    /\ steps' = steps \o <<"44:GaussianBlur", "45:cvtColor", "46:split", "47:threshold">>
    /\ pc' = "canny"
    /\ UNCHANGED <<image, cannyHSV, gray, contours, boundRect, footRect, i,
                   circles, TooniePixelRadius, pixels_per_metric, out, shown,
                   held, keyPending>>

\* line 50
Canny ==
    /\ pc = "canny"
    /\ cannyHSV' = Append(hsv, "50:Canny")
    /\ steps' = Append(steps, "50:Canny")
    /\ pc' = "findContours"
    /\ UNCHANGED <<image, bottomTestImage, hsv, gray, contours, boundRect,
                   footRect, i, circles, TooniePixelRadius, pixels_per_metric,
                   out, shown, held, keyPending>>

\* lines 53-59: contours found, boundRect sized, footRect default-constructed
\* (int maxArea = 0 of line 59 is never read)
FindContours ==
    /\ pc = "findContours"
    /\ contours' = image.polys
    /\ boundRect' = [k \in 1..Len(image.polys) |-> RectDefault]
    /\ footRect' = RectDefault
    /\ i' = 1
    /\ steps' = Append(steps, "54:findContours")
    /\ pc' = "contourLoop"
    /\ UNCHANGED <<image, bottomTestImage, hsv, cannyHSV, gray, circles,
                   TooniePixelRadius, pixels_per_metric, out, shown, held,
                   keyPending>>

\* variant of lines 62-70 drawing every bounding rectangle inside the loop
ContourStepDrawing ==
    /\ pc = "contourLoop"
    /\ i <= Len(contours)
    /\ LET r == BoundingRect(contours[i])
       IN  /\ boundRect' = [boundRect EXCEPT ![i] = r]
           /\ footRect' = IF Area(r) > Area(footRect) THEN r ELSE footRect
    /\ i' = i + 1
    /\ bottomTestImage' = Append(bottomTestImage, "96:rectangle")
    /\ steps' = steps \o <<"65:approxPolyDP", "66:boundingRect", "69:compare", "96:rectangle">>
    /\ UNCHANGED <<pc, image, hsv, cannyHSV, gray, contours,
                   circles, TooniePixelRadius, pixels_per_metric, out, shown,
                   held, keyPending>>

\* lines 62-70, one iteration
ContourStep ==
    /\ pc = "contourLoop"
    /\ i <= Len(contours)
    /\ LET r == BoundingRect(contours[i])
       IN  /\ boundRect' = [boundRect EXCEPT ![i] = r]
           /\ footRect' = IF LargerArea(r, footRect) THEN r ELSE footRect
    /\ i' = i + 1
    /\ steps' = steps \o <<"65:approxPolyDP", "66:boundingRect", "69:compare">>
    /\ UNCHANGED <<pc, image, bottomTestImage, hsv, cannyHSV, gray, contours,
                   circles, TooniePixelRadius, pixels_per_metric, out, shown,
                   held, keyPending>>

\* line 62: loop exit
ContourLoopExit ==
    /\ pc = "contourLoop"
    /\ i > Len(contours)
    /\ pc' = "gray"
    /\ UNCHANGED <<image, bottomTestImage, hsv, cannyHSV, gray, contours,
                   boundRect, footRect, i, circles, TooniePixelRadius,
                   pixels_per_metric, out, shown, held, keyPending, steps>>

\* lines 73-74: grayscale of bottomTestImage, blurred; int TooniePixelRadius = 0
GrayConvert ==
    /\ pc = "gray"
    /\ gray' = bottomTestImage \o <<"74:cvtColor", "74:GaussianBlur">>
    /\ TooniePixelRadius' = 0
    /\ steps' = steps \o <<"74:cvtColor", "74:GaussianBlur">>
    /\ pc' = "hough"
    /\ UNCHANGED <<image, bottomTestImage, hsv, cannyHSV, contours, boundRect,
                   footRect, i, circles, pixels_per_metric, out, shown, held,
                   keyPending>>

\* line 78
Hough ==
    /\ pc = "hough"
    /\ circles' = HoughCircles(image.candidates)
    /\ i' = 1
    /\ steps' = Append(steps, "78:HoughCircles")
    /\ pc' = "circleLoop"
    /\ UNCHANGED <<image, bottomTestImage, hsv, cannyHSV, gray, contours,
                   boundRect, footRect, TooniePixelRadius, pixels_per_metric,
                   out, shown, held, keyPending>>

\* lines 82-90, one iteration: convert, compare, draw the circle
CircleStep ==
    /\ pc = "circleLoop"
    /\ i <= Len(circles)
    /\ LET c == Vec3i(circles[i])
           radius == c[3]
       IN  TooniePixelRadius' =
               IF LargerRadius(radius, TooniePixelRadius) THEN radius
               ELSE TooniePixelRadius
    /\ bottomTestImage' = Append(bottomTestImage, "89:circle")
    /\ i' = i + 1
    /\ steps' = steps \o <<"83:Vec3i", "88:compare", "89:circle">>
    /\ UNCHANGED <<pc, image, hsv, cannyHSV, gray, contours, boundRect,
                   footRect, circles, pixels_per_metric, out, shown, held,
                   keyPending>>

\* line 82: loop exit
CircleLoopExit ==
    /\ pc = "circleLoop"
    /\ i > Len(circles)
    /\ pc' = "scale"
    /\ UNCHANGED <<image, bottomTestImage, hsv, cannyHSV, gray, contours,
                   boundRect, footRect, i, circles, TooniePixelRadius,
                   pixels_per_metric, out, shown, held, keyPending, steps>>

\* line 93
Scale ==
    /\ pc = "scale"
    /\ pixels_per_metric' = ScaleOf(TooniePixelRadius)
    /\ steps' = Append(steps, "93:divide")
    /\ pc' = "rectangle"
    /\ UNCHANGED <<image, bottomTestImage, hsv, cannyHSV, gray, contours,
                   boundRect, footRect, i, circles, TooniePixelRadius, out,
                   shown, held, keyPending>>

\* line 96
DrawRectangle ==
    /\ pc = "rectangle"
    /\ bottomTestImage' = Append(bottomTestImage, "96:rectangle")
    /\ steps' = Append(steps, "96:rectangle")
    /\ pc' = "show1"
    /\ UNCHANGED <<image, hsv, cannyHSV, gray, contours, boundRect, footRect,
                   i, circles, TooniePixelRadius, pixels_per_metric, out,
                   shown, held, keyPending>>

\* lines 97-99: caption hsv, show it, enter waitKey(6000)
Show1 ==
    /\ pc = "show1"
    /\ hsv' = Append(hsv, "97:putText")
    /\ shown' = Append(shown, "hsv")
    /\ held' = 0
    /\ steps' = steps \o <<"97:putText", "98:imshow">>
    /\ pc' = "wait1"
    /\ UNCHANGED <<image, bottomTestImage, cannyHSV, gray, contours, boundRect,
                   footRect, i, circles, TooniePixelRadius, pixels_per_metric,
                   out, keyPending>>

\* lines 100-102: caption cannyHSV, show it, enter waitKey(4000)
Show2 ==
    /\ pc = "show2"
    /\ cannyHSV' = Append(cannyHSV, "100:putText")
    /\ shown' = Append(shown, "cannyHSV")
    /\ held' = 0
    /\ steps' = steps \o <<"100:putText", "101:imshow">>
    /\ pc' = "wait2"
    /\ UNCHANGED <<image, bottomTestImage, hsv, gray, contours, boundRect,
                   footRect, i, circles, TooniePixelRadius, pixels_per_metric,
                   out, keyPending>>

\* lines 103-105: caption bottomTestImage, show it, enter waitKey(4000)
Show3 ==
    /\ pc = "show3"
    /\ bottomTestImage' = Append(bottomTestImage, "103:putText")
    /\ shown' = Append(shown, "bottomTestImage")
    /\ held' = 0
    /\ steps' = steps \o <<"103:putText", "104:imshow">>
    /\ pc' = "wait3"
    /\ UNCHANGED <<image, hsv, cannyHSV, gray, contours, boundRect, footRect,
                   i, circles, TooniePixelRadius, pixels_per_metric, out,
                   keyPending>>

\* lines 108-121: the console report, then enter waitKey(0)
ConsoleReport ==
    /\ pc = "print"
    /\ out' = <<ReportOf(TooniePixelRadius, pixels_per_metric, footRect)>>
    /\ held' = 0
    /\ steps' = Append(steps, "108:cout")
    /\ pc' = "wait0"
    /\ UNCHANGED <<image, bottomTestImage, hsv, cannyHSV, gray, contours,
                   boundRect, footRect, i, circles, TooniePixelRadius,
                   pixels_per_metric, shown, keyPending>>

\* the waitKey calls: where each blocks, its delay, where it returns to
WaitCalls ==
    {[at |-> "wait1", delay |-> Delay1, to |-> "show2", step |-> "99:waitKey"],
     [at |-> "wait2", delay |-> Delay2, to |-> "show3", step |-> "102:waitKey"],
     [at |-> "wait3", delay |-> Delay3, to |-> "print", step |-> "105:waitKey"],
     [at |-> "wait0", delay |-> Delay0, to |-> "done", step |-> "121:waitKey"]}

\* waitKey(delay), delay > 0, no key: returns -1 once the delay has elapsed
WaitKeyTimeout ==
    \E w \in WaitCalls :
        /\ pc = w.at
        /\ w.delay > 0
        /\ ~keyPending
        /\ held' = w.delay
        /\ steps' = Append(steps, w.step)
        /\ pc' = w.to
        /\ UNCHANGED <<image, bottomTestImage, hsv, cannyHSV, gray, contours,
                       boundRect, footRect, i, circles, TooniePixelRadius,
                       pixels_per_metric, out, shown, keyPending>>

\* waitKey(delay) with a key event: returns the key at once, whatever the delay
WaitKeyPressed ==
    \E w \in WaitCalls :
        /\ pc = w.at
        /\ keyPending
        /\ keyPending' = FALSE
        /\ \E t \in {0, IF w.delay > 0 THEN w.delay - 1 ELSE Delay1 + Delay2} :
               held' = t
        /\ steps' = Append(steps, w.step)
        /\ pc' = w.to
        /\ UNCHANGED <<image, bottomTestImage, hsv, cannyHSV, gray, contours,
                       boundRect, footRect, i, circles, TooniePixelRadius,
                       pixels_per_metric, out, shown>>

\* the user presses a key while a window is up and main blocks in waitKey
UserKey ==
    /\ pc \in {w.at : w \in WaitCalls}
    /\ ~keyPending
    /\ keyPending' = TRUE
    /\ UNCHANGED <<pc, image, bottomTestImage, hsv, cannyHSV, gray, contours,
                   boundRect, footRect, i, circles, TooniePixelRadius,
                   pixels_per_metric, out, shown, held, steps>>

\* the steps of main itself
Program ==
    \/ Imread \/ SkinMaskThrow \/ SkinMask \/ Canny \/ FindContours
    \/ ContourStep \/ ContourLoopExit \/ GrayConvert \/ Hough
    \/ CircleStep \/ CircleLoopExit \/ Scale \/ DrawRectangle
    \/ Show1 \/ Show2 \/ Show3 \/ ConsoleReport
    \/ WaitKeyTimeout \/ WaitKeyPressed

Next == Program \/ UserKey

Spec == Init /\ [][Next]_vars
SpecCoin == InitCoin /\ [][Next]_vars
SpecScale == InitScale /\ [][Next]_vars
\* main runs on its own thread and is never suspended except inside waitKey
SpecFair == InitFair /\ [][Next]_vars /\ WF_vars(Program)

(***************************************************************************)
(* Vocabulary of the properties.                                           *)
(***************************************************************************)
PcOrder ==
    <<"imread", "skinmask", "canny", "findContours", "contourLoop", "gray",
      "hough", "circleLoop", "scale", "rectangle", "show1", "wait1", "show2",
      "wait2", "show3", "wait3", "print", "wait0", "done">>

Rank(p) == CHOOSE k \in 1..Len(PcOrder) : PcOrder[k] = p

\* main has completed the statement group labelled p
After(p) == pc # "aborted" /\ Rank(pc) > Rank(p)

RECURSIVE MaxRadius(_)
\* the largest float radius of a non-empty list of circles
MaxRadius(cs) ==
    IF Len(cs) = 1 THEN cs[1][3]
    ELSE LET m == MaxRadius(Tail(cs))
         IN  IF cs[1][3] > m THEN cs[1][3] ELSE m

\* the stage each operation belongs to, by the stage descriptions of the
\* design: 1 skin mask, 2 edge extraction, 3 contour analysis, 4 coin
\* detection, 5 scale calculation, 6 report rendering (0: image loading)
StageOf(op) ==
    CASE op = "41:imread" -> 0
      [] op \in {"44:GaussianBlur", "45:cvtColor", "46:split", "47:threshold"} -> 1
      [] op = "50:Canny" -> 2
      [] op \in {"54:findContours", "65:approxPolyDP", "66:boundingRect", "69:compare"} -> 3
      [] op \in {"74:cvtColor", "74:GaussianBlur", "78:HoughCircles", "83:Vec3i", "88:compare"} -> 4
      [] op = "93:divide" -> 5
      [] OTHER -> 6

\* the same, with the circle drawing of line 89 counted where it executes
StageInCode(op) == IF op = "89:circle" THEN 4 ELSE StageOf(op)

Stages == 1..6

IsBlur(op) == op \in {"44:GaussianBlur", "74:GaussianBlur"}
IsAnnotation(op) == op \in {"89:circle", "96:rectangle", "103:putText"}
CountBlur(seq) == Cardinality({k \in 1..Len(seq) : IsBlur(seq[k])})
CountAnnotation(seq) == Cardinality({k \in 1..Len(seq) : IsAnnotation(seq[k])})

(***************************************************************************)
(* C1: after the contour scan the foot rectangle is the bounding           *)
(* rectangle of largest area (width * height) among the contours, and of   *)
(* several rectangles of that largest area the first in scan order.        *)
(***************************************************************************)
C1_FirstLargestRect ==
    (After("contourLoop") /\ contours # <<>>) =>
        \E k \in 1..Len(boundRect) :
            /\ footRect = boundRect[k]
            /\ \A j \in 1..Len(boundRect) : Area(boundRect[j]) <= Area(boundRect[k])
            /\ \A j \in 1..(k - 1) : Area(boundRect[j]) < Area(boundRect[k])
            /\ \A j \in 1..Len(boundRect) : boundRect[j] = BoundingRect(contours[j])

\* a tie between two different rectangles, the first one kept
C1_Witness ==
    /\ After("contourLoop")
    /\ Len(contours) = 2
    /\ Area(boundRect[1]) = Area(boundRect[2])
    /\ boundRect[1] # boundRect[2]
    /\ footRect = boundRect[1]

(***************************************************************************)
(* C2 as stated: after the circle scan the coin pixel radius equals the    *)
(* largest radius among the detected circles.                              *)
(***************************************************************************)
C2_EqualsLargestRadius ==
    (After("circleLoop") /\ circles # <<>>) =>
        TooniePixelRadius * RadiusUnit = MaxRadius(circles)

(***************************************************************************)
(* C2 amended: after the circle scan the coin pixel radius is the largest  *)
(* detected radius rounded to the nearest integer (each float radius goes  *)
(* through the Vec3f -> Vec3i conversion before it is compared), whatever  *)
(* the centres and the order of the circles; it is 0 with no circle.       *)
(***************************************************************************)
C2_RoundedLargestRadius ==
    After("circleLoop") =>
        IF circles = <<>> THEN TooniePixelRadius = 0
        ELSE LET d == TooniePixelRadius * RadiusUnit - MaxRadius(circles)
             IN  /\ 2 * d <= RadiusUnit
                 /\ 2 * d >= 0 - RadiusUnit
                 /\ \E k \in 1..Len(circles) :
                        TooniePixelRadius = Vec3i(circles[k])[3]

\* two circles at different centres, the larger first, its radius fractional
C2_Witness ==
    /\ After("circleLoop")
    /\ Len(circles) = 2
    /\ circles[1][3] > circles[2][3]
    /\ circles[1][3] % RadiusUnit # 0
    /\ TooniePixelRadius > Vec3i(circles[2])[3]

(***************************************************************************)
(* C3: with one circle of pixel radius R selected and one rectangle of     *)
(* pixel width W and height H selected, the report gives the scale         *)
(* Toonie_RADIUS / R, the foot length H * scale, the foot width W * scale, *)
(* and H and W as the pixel length and width.                              *)
(***************************************************************************)
C3_ReportedMeasurements ==
    (out # <<>> /\ Len(circles) = 1 /\ Len(contours) = 1) =>
        LET R == CvRound(circles[1][3])
            W == contours[1].xmax - contours[1].xmin + 1
            H == contours[1].ymax - contours[1].ymin + 1
            scale == FDiv(Toonie_RADIUS, IntToFloat(R))
        IN  /\ out[1].radiusPx = R
            /\ out[1].scale = scale
            /\ out[1].lengthCm = FMul(IntToFloat(H), scale)
            /\ out[1].widthCm = FMul(IntToFloat(W), scale)
            /\ out[1].lengthPx = H
            /\ out[1].widthPx = W

\* a report for a coin of radius 3 and a rectangle that is not square
C3_Witness ==
    /\ out # <<>>
    /\ Len(circles) = 1
    /\ Len(contours) = 1
    /\ out[1].radiusPx = 3
    /\ out[1].lengthPx # out[1].widthPx
    /\ out[1].scale.cls = "fin"

(***************************************************************************)
(* C4: when circle detection returns no circle, the coin pixel radius is   *)
(* still 0 when the scale is computed, the scale is non-finite, and the    *)
(* run goes on to the console report, which prints that value; no error    *)
(* outcome arises.                                                         *)
(***************************************************************************)
C4_NoCircleNonFiniteScale ==
    (After("hough") /\ circles = <<>>) =>
        /\ TooniePixelRadius = 0
        /\ After("scale") => pixels_per_metric \in {FInf, FNaN}
        /\ After("print") =>
               /\ out # <<>>
               /\ out[1].scale = pixels_per_metric
               /\ out[1].radiusPx = 0
        /\ (pc \notin {"wait0", "done"}) => ENABLED Program

\* the report printed with an infinite scale
C4_Witness ==
    /\ After("print")
    /\ circles = <<>>
    /\ image.candidates # <<>>
    /\ out[1].scale = FInf

(***************************************************************************)
(* C5 as stated: when no contours are found the foot rectangle keeps its   *)
(* zero-area default and every length and width output of the report,      *)
(* pixels and physical units, is zero whatever circle detection returns.   *)
(***************************************************************************)
C5_AllOutputsZero ==
    (out # <<>> /\ contours = <<>>) =>
        /\ Area(footRect) = 0
        /\ out[1].lengthPx = 0
        /\ out[1].widthPx = 0
        /\ out[1].lengthCm = FZero
        /\ out[1].widthCm = FZero

(***************************************************************************)
(* C5 amended: when no contours are found the foot rectangle keeps its     *)
(* zero-area default and the pixel length and width printed are zero; the  *)
(* physical length and width printed are zero when the coin pixel radius   *)
(* is at least 1, and NaN (0 * infinity) when it is 0.                     *)
(***************************************************************************)
C5_ZeroOrNaNOutputs ==
    (out # <<>> /\ contours = <<>>) =>
        /\ Area(footRect) = 0
        /\ out[1].lengthPx = 0
        /\ out[1].widthPx = 0
        /\ TooniePixelRadius >= 1 =>
               out[1].lengthCm = FZero /\ out[1].widthCm = FZero
        /\ TooniePixelRadius = 0 =>
               out[1].lengthCm = FNaN /\ out[1].widthCm = FNaN

\* no contour, a coin found, the report printed
C5_Witness ==
    /\ out # <<>>
    /\ contours = <<>>
    /\ TooniePixelRadius >= 1
    /\ out[1].lengthCm = FZero

(***************************************************************************)
(* C6 as stated: in every run the computed scale multiplied by the coin    *)
(* pixel radius it was computed from equals Toonie_RADIUS.                 *)
(***************************************************************************)
C6_RoundTripEveryRun ==
    After("scale") =>
        FMul(pixels_per_metric, IntToFloat(TooniePixelRadius)) = Toonie_RADIUS

(***************************************************************************)
(* C6 amended: in every run whose coin pixel radius is at least 1 the      *)
(* computed scale multiplied (in float) by that radius equals              *)
(* Toonie_RADIUS; with radius 0 the scale is infinite and the product NaN. *)
(***************************************************************************)
C6_RoundTripNonZeroRadius ==
    After("scale") =>
        LET back == FMul(pixels_per_metric, IntToFloat(TooniePixelRadius))
        IN  /\ TooniePixelRadius >= 1 => back = Toonie_RADIUS
            /\ TooniePixelRadius = 0 => pixels_per_metric = FInf /\ back = FNaN

\* a scale that is not exact in binary: radius 3
C6_Witness ==
    /\ After("scale")
    /\ TooniePixelRadius = 3
    /\ pixels_per_metric.cls = "fin"

(***************************************************************************)
(* Display vocabulary.                                                     *)
(***************************************************************************)
DisplayOrder == <<"hsv", "cannyHSV", "bottomTestImage">>

\* the windows come up in the order skin mask, edge map, annotated image
ShownInOrder ==
    /\ Len(shown) <= 3
    /\ \A k \in 1..Len(shown) : shown[k] = DisplayOrder[k]
    /\ After("show1") => Len(shown) >= 1
    /\ After("show2") => Len(shown) >= 2
    /\ After("show3") => Len(shown) = 3

\* main returns only out of the final waitKey, and only on a key
ExitOnlyOnKey ==
    [][(pc' = "done" /\ pc # "done") => (pc = "wait0" /\ keyPending)]_vars

\* the final waitKey never times out
FinalWaitIndefinite ==
    [][(pc = "wait0" /\ ~keyPending) => pc' = "wait0"]_vars

(***************************************************************************)
(* C7 as stated (its safety half): the three visualizations are displayed  *)
(* in the order skin mask, edge map, annotated image, and each is held for *)
(* its fixed duration (6000, 4000, 4000 ms).                               *)
(***************************************************************************)
C7_HeldForFixedDuration ==
    /\ ShownInOrder
    /\ pc = "show2" => held = Delay1
    /\ pc = "show3" => held = Delay2
    /\ pc = "print" => held = Delay3

(***************************************************************************)
(* C7 amended: the three visualizations are displayed in the order skin    *)
(* mask, edge map, annotated image; each is held for at most its fixed     *)
(* duration, a key press ending the hold early; the final wait has no      *)
(* timeout; main returns only after a key press in the final wait, and a   *)
(* key pressed in the final wait always leads to the return.               *)
(***************************************************************************)
C7_DisplayAndExit ==
    /\ [](/\ ShownInOrder
          /\ pc = "show2" => held <= Delay1
          /\ pc = "show3" => held <= Delay2
          /\ pc = "print" => held <= Delay3)
    /\ [][(pc = "wait1" /\ pc' = "show2" /\ ~keyPending) => held' = Delay1]_vars
    /\ [][(pc = "wait2" /\ pc' = "show3" /\ ~keyPending) => held' = Delay2]_vars
    /\ [][(pc = "wait3" /\ pc' = "print" /\ ~keyPending) => held' = Delay3]_vars
    /\ ExitOnlyOnKey
    /\ FinalWaitIndefinite
    /\ ((pc = "wait0" /\ keyPending) ~> (pc = "done"))

\* main has returned out of the final waitKey after showing all three windows
C7_Witness ==
    /\ pc = "done"
    /\ shown = DisplayOrder
    /\ "121:waitKey" \in {steps[k] : k \in 1..Len(steps)}

(***************************************************************************)
(* C8 as stated: every run executes the stages skin mask, edge extraction, *)
(* contour analysis, coin detection, scale calculation, report rendering   *)
(* in that order, each exactly once: no operation of a later stage (the    *)
(* annotation drawing included) precedes an operation of an earlier one,   *)
(* and no completed run has skipped a stage.                               *)
(***************************************************************************)
C8_StrictStageOrder ==
    /\ \A a \in 1..(Len(steps) - 1) : StageOf(steps[a]) <= StageOf(steps[a + 1])
    /\ pc = "done" =>
           \A st \in Stages : \E k \in 1..Len(steps) : StageOf(steps[k]) = st

(***************************************************************************)
(* C8 amended: every run whose image loads executes the six stages in      *)
(* that order, each exactly once and none skipped, except that each        *)
(* detected circle is drawn on the image inside the coin-detection loop,   *)
(* before the scale is calculated; the rectangle and the captions are      *)
(* drawn in report rendering only.  A run whose image is empty stops in    *)
(* the skin-mask stage.                                                    *)
(***************************************************************************)
C8_StageOrderButCircleDrawing ==
    /\ \A a \in 1..(Len(steps) - 1) :
           StageInCode(steps[a]) <= StageInCode(steps[a + 1])
    /\ \A a \in 1..Len(steps) :
           (IsAnnotation(steps[a]) /\ steps[a] # "89:circle") =>
               \E b \in 1..(a - 1) : steps[b] = "93:divide"
    /\ pc = "done" =>
           \A st \in Stages : \E k \in 1..Len(steps) : StageInCode(steps[k]) = st
    /\ pc = "aborted" => (image.empty /\ steps = <<"41:imread">>)
    /\ ~(image.empty /\ After("skinmask"))

\* a complete run that drew a circle before calculating the scale
C8_Witness ==
    /\ pc = "done"
    /\ \E a \in 1..Len(steps) : \E b \in a..Len(steps) :
           steps[a] = "89:circle" /\ steps[b] = "93:divide"
    /\ Len(contours) = 2

(***************************************************************************)
(* C9: the circle detection is configured with a positive minimum radius   *)
(* that every accepted circle reaches, and with no upper radius bound: a   *)
(* candidate is never left out for being too large.                        *)
(***************************************************************************)
C9_MinimumRadiusOnly ==
    After("hough") =>
        /\ HoughMinRadius > 0
        /\ \A k \in 1..Len(circles) : circles[k][3] >= HoughMinRadius * RadiusUnit
        /\ \A k \in 1..Len(image.candidates) :
               LET c == image.candidates[k]
               IN  (/\ c[3] >= HoughMinRadius * RadiusUnit
                    /\ \A j \in 1..Len(circles) : FarEnough(c, circles[j]))
                       => \E j \in 1..Len(circles) : circles[j] = c

(***************************************************************************)
(* C10 as stated: when the grayscale conversion runs, the colour raster it *)
(* reads is the image as loaded, modified neither by the skin-mask blur    *)
(* nor by annotation drawing, and the coin detector's input has been       *)
(* blurred exactly once.                                                   *)
(***************************************************************************)
C10_GrayFromUnmodifiedImage ==
    /\ pc = "gray" => bottomTestImage = <<"41:imread">>
    /\ After("gray") =>
           /\ SubSeq(gray, 1, Len(gray) - 2) = <<"41:imread">>
           /\ CountBlur(gray) = 1

(***************************************************************************)
(* C10 amended: when the grayscale conversion runs, the colour raster it   *)
(* reads is the loaded image after the in-place Gaussian blur of the       *)
(* skin-mask stage and before any annotation drawing; the coin detector's  *)
(* input has therefore been blurred twice, once by the skin-mask stage and *)
(* once on the coin-detection path.                                        *)
(***************************************************************************)
C10_GrayFromBlurredImage ==
    /\ pc = "gray" =>
           /\ bottomTestImage = <<"41:imread", "44:GaussianBlur">>
           /\ CountAnnotation(bottomTestImage) = 0
    /\ After("gray") =>
           /\ gray = <<"41:imread", "44:GaussianBlur", "74:cvtColor", "74:GaussianBlur">>
           /\ CountBlur(gray) = 2

\* HoughCircles has run on the gray raster and the image carries annotations
C10_Witness ==
    /\ After("circleLoop")
    /\ CountAnnotation(bottomTestImage) > 0
    /\ CountBlur(gray) = 2

====
